---- MODULE Spec2Model ----
(***************************************************************************)
(* Model of the C2PA asset-compute worker, src/actions/worker/index.js.    *)
(*                                                                         *)
(* Three specifications share the module:                                  *)
(*   SpecExec      the command executor, executeJsonOutputCommand          *)
(*   SpecExchange  the token exchange, exchangeServiceTokenForSignature    *)
(*   Spec          one invocation of exports.main, with every helper it    *)
(*                 calls (manifest propagator, add-manifest, add-auth,     *)
(*                 token exchange, command executor)                       *)
(*                                                                         *)
(* JavaScript values are encoded as strings: "undefined" is a missing      *)
(* property, "true"/"false" are the booleans, "str" is a truthy value that *)
(* is not the boolean true, "" is the empty string.                        *)
(***************************************************************************)
EXTENDS Integers, Sequences, FiniteSets, TLC

\* ------------------------------------------------------------------ bounds
MaxStdoutLen == 4
MaxSrcLen == 1

\* ------------------------------------------------------------------ helpers
SeqsUpTo(S, n) == UNION {[1..k -> S] : k \in 0..n}

\* ==================================================================
\* Command executor (index.js 33-47)
\* ==================================================================

\* Characters a subprocess prints, enough for whitespace, JSON numbers,
\* JSON arrays and text that is no JSON.
Chars == {" ", "1", "[", "]", ",", "x"}

IsWhitespace(c) == c = " "

RECURSIVE trimStart(_)
trimStart(s) ==
  IF s # <<>> /\ IsWhitespace(Head(s)) THEN trimStart(Tail(s)) ELSE s

RECURSIVE trimEnd(_)
trimEnd(s) ==
  IF s # <<>> /\ IsWhitespace(s[Len(s)])
  THEN trimEnd(SubSeq(s, 1, Len(s) - 1))
  ELSE s

\* String.prototype.trim
trim(s) == trimEnd(trimStart(s))

ParseFail == [ok |-> FALSE, val |-> <<>>, rest |-> <<>>]

RECURSIVE ParseDigits(_, _)
ParseDigits(s, acc) ==
  IF s # <<>> /\ Head(s) = "1"
  THEN ParseDigits(Tail(s), Append(acc, "1"))
  ELSE [ok |-> TRUE, val |-> acc, rest |-> s]

\* Recursive-descent JSON parser over Chars.  The parsed value is kept in
\* canonical form: the tokens of the text, insignificant whitespace dropped.
RECURSIVE ParseValue(_)
RECURSIVE ParseElements(_, _)
ParseValue(s) ==
  LET t == trimStart(s) IN
  IF t = <<>> THEN ParseFail
  ELSE IF Head(t) = "1" THEN ParseDigits(t, <<>>)
  ELSE IF Head(t) = "["
       THEN LET u == trimStart(Tail(t)) IN
            IF u # <<>> /\ Head(u) = "]"
            THEN [ok |-> TRUE, val |-> <<"[", "]">>, rest |-> Tail(u)]
            ELSE ParseElements(Tail(t), <<"[">>)
  ELSE ParseFail

ParseElements(s, acc) ==
  LET r == ParseValue(s) IN
  IF ~r.ok THEN ParseFail
  ELSE LET u == trimStart(r.rest) IN
       IF u = <<>> THEN ParseFail
       ELSE IF Head(u) = "]"
            THEN [ok |-> TRUE, val |-> acc \o r.val \o <<"]">>, rest |-> Tail(u)]
       ELSE IF Head(u) = ","
            THEN ParseElements(Tail(u), acc \o r.val \o <<",">>)
       ELSE ParseFail

\* JSON.parse: a value, or a thrown SyntaxError (ok = FALSE).
JSONparse(s) ==
  LET r == ParseValue(s) IN
  IF r.ok /\ trimStart(r.rest) = <<>>
  THEN [ok |-> TRUE, val |-> r.val]
  ELSE [ok |-> FALSE, val |-> <<>>]

\* What util.promisify(exec) does with a command: it resolves with stdout
\* when the subprocess exits 0, and rejects otherwise.
ExecOutcomes == {"exit0", "nonzero", "spawnError"}

\* Result of a call: kind "return" with value (isNull or val), or "throw".
ReturnNull == [kind |-> "return", isNull |-> TRUE, val |-> <<>>]
ReturnVal(v) == [kind |-> "return", isNull |-> FALSE, val |-> v]
ThrowResult == [kind |-> "throw", isNull |-> TRUE, val |-> <<>>]

\* The body of the try block, lines 36-42: the value assigned to result, or
\* the exception that leaves the block.
ExecTryBlock(outcome, out) ==
  IF outcome # "exit0" THEN ThrowResult
  ELSE IF out = <<>> THEN ReturnNull                  \* if (stdout)
  ELSE LET trimmed == trim(out) IN
       IF trimmed = <<>> THEN ReturnNull              \* trimmed !== ''
       ELSE LET p == JSONparse(trimmed) IN
            IF p.ok THEN ReturnVal(p.val) ELSE ThrowResult

\* Mutant: the catch clause is missing, an exception leaves the function.
executeJsonOutputCommandNoCatch(outcome, out) == ExecTryBlock(outcome, out)

\* executeJsonOutputCommand, lines 33-47: the catch clause swallows every
\* exception and result keeps its initial null.
executeJsonOutputCommand(outcome, out) ==
  LET r == ExecTryBlock(outcome, out) IN
  IF r.kind = "throw" THEN ReturnNull ELSE r

VARIABLES execPc, execOutcome, stdout, execResult

execVars == <<execPc, execOutcome, stdout, execResult>>

ExecIdle ==
  /\ execPc = "idle"
  /\ execOutcome = "none"
  /\ stdout = <<>>
  /\ execResult = ReturnNull

\* One call of the executor: the subprocess' outcome and output are the
\* environment's choice.
ExecCall(outs) ==
  \E o \in ExecOutcomes, out \in outs :
    /\ execPc' = "returned"
    /\ execOutcome' = o
    /\ stdout' = out
    /\ execResult' = executeJsonOutputCommand(o, out)

\* ==================================================================
\* Token exchange (index.js 49-89)
\* ==================================================================

\* JavaScript truthiness of an encoded value.
Truthy(v) == v \notin {"undefined", "null", "false", ""}

STAGE_TIER == "STAGE"
PROD_TIER == "PROD"
AUTH_STAGE_ENDPOINT == "https://ims-na1-stg1.adobelogin.com"
AUTH_PROD_ENDPOINT == "https://ims-na1.adobelogin.com"

Tiers == {"undefined", "", "stage", "STAGE", "Prod", "PROD", "DEV"}

\* String.prototype.toUpperCase on the tiers of the model.
toUpperCase(t) ==
  CASE t \in {"stage", "STAGE"} -> "STAGE"
    [] t \in {"Prod", "PROD"} -> "PROD"
    [] OTHER -> t

\* Sign parameters, rendition.instructions.c2paSignParams.  defined = FALSE is
\* an instruction bag without c2paSignParams.
SignParamsOf(cs, ac, t, uit, cutf) ==
  [defined |-> TRUE, clientSecret |-> cs, accessCode |-> ac, tier |-> t,
   useInternalTooling |-> uit, cleanUpTmpFiles |-> cutf]

EmptyObject ==
  SignParamsOf("undefined", "undefined", "undefined", "undefined", "undefined")

NoSignParams == [EmptyObject EXCEPT !.defined = FALSE]

\* Response bodies: text that is no JSON, the JSON null, or a JSON object
\* with the three properties the code reads.
NoBody ==
  [kind |-> "none", error |-> "undefined", error_description |-> "undefined",
   access_token |-> "undefined"]

Bodies ==
  {[NoBody EXCEPT !.kind = "nonjson"], [NoBody EXCEPT !.kind = "null"]}
  \cup [kind : {"object"},
        error : {"undefined", "invalid_client", "invalid_grant"},
        error_description :
          {"undefined", "invalid client_secret parameter", "other"},
        access_token : {"undefined", "tok"}]

Statuses == {200, 400, 401, 500}

StatusText(st) ==
  CASE st = 200 -> "OK"
    [] st = 400 -> "Bad Request"
    [] st = 401 -> "Unauthorized"
    [] OTHER -> "Internal Server Error"

\* What fetch gives: a rejection, no response object, or a response.
NoResponse == [kind |-> "none", status |-> 0, statusText |-> "", body |-> NoBody]

Responses ==
  {NoResponse, [NoResponse EXCEPT !.kind = "rejects"]}
  \cup [kind : {"response"}, status : Statuses, statusText : {""},
        body : Bodies]

FetchOutcomes ==
  {IF r.kind = "response"
   THEN [r EXCEPT !.statusText = StatusText(r.status)]
   ELSE r : r \in Responses}

\* Response.ok
ResOk(res) == res.status >= 200 /\ res.status <= 299

\* Results of the exchange: a returned access token or a thrown error; the
\* generic error's message carries status, status text and body.
TokenReturn(tok) ==
  [kind |-> "return", value |-> tok, error |-> "", status |-> 0,
   statusText |-> "", body |-> NoBody]

TokenThrow(msg) ==
  [kind |-> "throw", value |-> "undefined", error |-> msg, status |-> 0,
   statusText |-> "", body |-> NoBody]

IncompleteError == "Incomplete C2PA signing information"
InvalidTierError == "Unable to exchange service token: not a valid tier"
NoResponseError == "No response from token exchange service"
CredentialRejected == "Unable to exchange service token, client_secret rejected"
TokenExchangeError == "Unable to exchange service token: status statusText body"
FetchRejected == "FetchError"
InvalidJson == "invalid-json"
TypeError == "TypeError"

\* Lines 50-62: the checks made before any request.
ExchangePrecheck(sp) ==
  IF ~sp.defined \/ ~Truthy(sp.clientSecret) \/ ~Truthy(sp.accessCode)
     \/ ~Truthy(sp.tier)
  THEN IncompleteError
  ELSE IF toUpperCase(sp.tier) = PROD_TIER THEN "ok"
  ELSE IF toUpperCase(sp.tier) = STAGE_TIER THEN "ok"
  ELSE InvalidTierError

adobeLoginHost(sp) ==
  IF toUpperCase(sp.tier) = PROD_TIER THEN AUTH_PROD_ENDPOINT
  ELSE AUTH_STAGE_ENDPOINT

\* Lines 83-87: the error thrown for a non-success response whose body parsed.
NonOkError(res) ==
  IF /\ res.status = 400
     /\ res.body.kind = "object"                               \* json &&
     /\ res.body.error = "invalid_client"
     /\ res.body.error_description = "invalid client_secret parameter"
  THEN TokenThrow(CredentialRejected)
  ELSE [TokenThrow(TokenExchangeError) EXCEPT
          !.status = res.status, !.statusText = res.statusText,
          !.body = res.body]

\* Lines 70-88: await fetch, then the handling of what it gave.  res.json()
\* rejects on a body that is no JSON; json.access_token of null is a
\* TypeError.
HandleResponse(res) ==
  IF res.kind = "rejects" THEN TokenThrow(FetchRejected)
  ELSE IF res.kind = "none" THEN TokenThrow(NoResponseError)
  ELSE IF res.body.kind = "nonjson" THEN TokenThrow(InvalidJson)
  ELSE IF ResOk(res)
       THEN IF res.body.kind = "null" THEN TokenThrow(TypeError)
            ELSE TokenReturn(res.body.access_token)
  ELSE NonOkError(res)

VARIABLES signParams, tokenPc, tokenHost, tokenResponse, tokenResult

tokenVars == <<tokenPc, tokenHost, tokenResponse, tokenResult>>

TokenIdle ==
  /\ tokenPc = "idle"
  /\ tokenHost = ""
  /\ tokenResponse = NoResponse
  /\ tokenResult = TokenReturn("undefined")

\* exchangeServiceTokenForSignature(signParams), lines 49-89.  A request is
\* made (tokenPc "requested") only when the checks pass.
exchangeServiceTokenForSignature ==
  IF ExchangePrecheck(signParams) # "ok"
  THEN /\ tokenPc' = "rejected"
       /\ tokenResult' = TokenThrow(ExchangePrecheck(signParams))
       /\ UNCHANGED <<tokenHost, tokenResponse>>
  ELSE \E res \in FetchOutcomes :
         /\ tokenPc' = "requested"
         /\ tokenHost' = adobeLoginHost(signParams)
         /\ tokenResponse' = res
         /\ tokenResult' = HandleResponse(res)

\* ==================================================================
\* Files, instructions and the state of one invocation of exports.main
\* ==================================================================

\* A file: its data bytes, the provenance manifests embedded into it, and
\* whether the write that produced it ran to its end.
Bytes == {0, 1}

AbsentFile ==
  [exists |-> FALSE, bytes |-> <<>>, manifests |-> <<>>, complete |-> FALSE]

FileOf(b) ==
  [exists |-> TRUE, bytes |-> b, manifests |-> <<>>, complete |-> TRUE]

\* What c2pa.sign returns in signedAsset.buffer: the asset with the new
\* manifest embedded.
SignedBuffer(f) == [f EXCEPT !.manifests = Append(@, "c2pa.created")]

\* What a successful run of the add-manifest command leaves at its --output
\* path, which is its input path (lines 95-103): the file with the manifest
\* of the scratch file embedded.
WithSourceManifest(f) == [f EXCEPT !.manifests = Append(@, "sourceActive")]

\* A write that stopped early (disk full, I/O error): a strict prefix.
Truncated(f, k) ==
  [exists |-> TRUE, bytes |-> SubSeq(f.bytes, 1, k), manifests |-> <<>>,
   complete |-> FALSE]

\* rendition.instructions; defined = FALSE is a rendition without them.
InstructionsOf(uls, asm, sp) ==
  [defined |-> TRUE, useLocalSigner |-> uls, addSourceManifest |-> asm,
   c2paSignParams |-> sp]

NoInstructions ==
  [defined |-> FALSE, useLocalSigner |-> "undefined",
   addSourceManifest |-> "undefined", c2paSignParams |-> NoSignParams]

\* rendition.instructions?.useLocalSigner ?? true, line 283
useLocalSignerOf(instr) ==
  IF instr.useLocalSigner = "undefined" THEN "true" ELSE instr.useLocalSigner

\* Mutant: any truthy addSourceManifest counts (== or a truthiness test).
shouldAddSourceManifestTruthy(instr) == Truthy(instr.addSourceManifest)

\* rendition.instructions?.addSourceManifest === true, line 298
shouldAddSourceManifest(instr) == instr.addSourceManifest = "true"

\* rendition.instructions?.c2paSignParams || {}, line 301
signParamsOf(instr) ==
  IF instr.c2paSignParams.defined THEN instr.c2paSignParams ELSE EmptyObject

\* extractContentProvenanceActiveManifestContents, lines 24-31, on the
\* metadata values of the model: "undefined", "null", "noActive" (metadata
\* without active_manifest) and "active".
extractContentProvenanceActiveManifestContents(c2paMetadata) ==
  IF c2paMetadata \in {"undefined", "null"} THEN "null"
  ELSE IF c2paMetadata = "active" THEN "active_manifest"
  ELSE "null"

\* read(path, mimeType), lines 219-224: what the function gives for each
\* thing its calls can do.  "throws" is a rejected promise.
ReadOutcomes ==
  {"readFileFails", "c2paReadFails", "resultUndefined", "resultNull",
   "noActive", "active"}

read(outcome) ==
  CASE outcome \in {"readFileFails", "c2paReadFails"} -> "throws"
    [] outcome \in {"resultUndefined", "resultNull"} -> "null"  \* result || null
    [] OTHER -> outcome

\* buildExtractionCommand, lines 91-107: the command as the parts that vary.
\* Input and output are both fileToProcess in all four variants.
NoCommand ==
  [tool |-> "", input |-> "", output |-> "", manifest |-> "",
   parent |-> "null", auth |-> "none"]

buildExtractionCommand(fileToProcess, jsonManifestPath, parentAsset, sp) ==
  [tool |-> IF Truthy(sp.useInternalTooling)
            THEN "adobe_c2patool add-manifest" ELSE "c2patool",
   input |-> fileToProcess, output |-> fileToProcess,
   manifest |-> jsonManifestPath,
   parent |-> IF Truthy(parentAsset) /\ parentAsset # "null"
              THEN parentAsset ELSE "null",
   auth |-> "none"]

\* `${inC2patoolCommand} --adobe-auth ${nui_cai_auth_token}`, line 113
WithAuth(cmd, token) == [cmd EXCEPT !.auth = token]

\* Object.keys(jsonResult).length > 0, line 128: a non-empty array has keys,
\* a number and the empty array have none.
HasKeys(r) == ~r.isNull /\ Head(r.val) = "[" /\ r.val # <<"[", "]">>

SourceCorruptError == "SourceCorruptError"
AuthAttachmentError == "Failed to add auth to C2PA command"

VARIABLES
  source,              \* the file at source.path
  instructions,        \* rendition.instructions
  pc,                  \* where the invocation stands
  error,               \* the error exports.main rejected with, "" if none
  sourceC2paMetadata,  \* line 244
  signerType,          \* the signer sign() built: "none", "local", "remote"
  signError,           \* what sent the signing step to its catch, "" if none
  signedAsset,         \* signedAsset.buffer
  rendition,           \* the file at rendition.path
  writes,              \* every write made to rendition.path, in order
  scratch,             \* the scratch manifest file
  scratchWritten,      \* fse.writeJson resolved
  unlinkAttempted,     \* fse.unlink was called
  c2patoolCommand,     \* line 120
  finalC2patoolCommand,\* line 123
  addManifestError,    \* the error addC2PAManifest threw, "" if none
  addedManifest,       \* what the propagator returned
  propagator           \* "notCalled", "running", "returned"

mainVars ==
  <<source, instructions, pc, error, sourceC2paMetadata, signerType,
    signError, signedAsset, rendition, writes, scratch, scratchWritten,
    unlinkAttempted, c2patoolCommand, finalC2patoolCommand, addManifestError,
    addedManifest, propagator>>

fileVars == <<rendition, writes>>
signVars == <<signerType, signError, signedAsset>>
propVars ==
  <<scratch, scratchWritten, unlinkAttempted, c2patoolCommand,
    finalC2patoolCommand, addManifestError, addedManifest, propagator>>
inputVars == <<source, instructions>>

MainIdle ==
  /\ pc = "stat"
  /\ error = ""
  /\ sourceC2paMetadata = "undefined"
  /\ signerType = "none"
  /\ signError = ""
  /\ signedAsset = AbsentFile
  /\ rendition = AbsentFile
  /\ writes = <<>>
  /\ scratch = "absent"
  /\ scratchWritten = FALSE
  /\ unlinkAttempted = FALSE
  /\ c2patoolCommand = NoCommand
  /\ finalC2patoolCommand = NoCommand
  /\ addManifestError = ""
  /\ addedManifest = ReturnNull
  /\ propagator = "notCalled"

\* ------------------------------------------------------------------
\* exports.main, lines 226-311
\* ------------------------------------------------------------------

\* Mutant: the size is not checked.
ValidateNoSizeCheck(src) == IF ~src.exists THEN "ENOENT" ELSE "ok"

\* Lines 232-235: fs.stat rejects for a file that is not there; a size of
\* zero throws SourceCorruptError.
Validate(src) ==
  IF ~src.exists THEN "ENOENT"
  ELSE IF Len(src.bytes) = 0 THEN SourceCorruptError
  ELSE "ok"

Stat ==
  /\ pc = "stat"
  /\ IF Validate(source) = "ok"
     THEN pc' = "readMetadata" /\ error' = error
     ELSE pc' = "failed" /\ error' = Validate(source)
  /\ UNCHANGED <<inputVars, sourceC2paMetadata, signVars, fileVars, propVars,
                 execVars, signParams, tokenVars>>

\* Mutant: no try/catch around the read, its rejection ends the invocation.
ReadMetadataNoCatch ==
  /\ pc = "readMetadata"
  /\ \E o \in ReadOutcomes :
       IF read(o) = "throws"
       THEN /\ pc' = "failed"
            /\ error' = "readFails"
            /\ sourceC2paMetadata' = sourceC2paMetadata
       ELSE /\ pc' = "sign"
            /\ error' = error
            /\ sourceC2paMetadata' = read(o)
  /\ UNCHANGED <<inputVars, signVars, fileVars, propVars, execVars,
                 signParams, tokenVars>>

\* Lines 242-247: the var keeps undefined when read rejects.
ReadMetadata ==
  /\ pc = "readMetadata"
  /\ \E o \in ReadOutcomes :
       sourceC2paMetadata' = IF read(o) = "throws" THEN "undefined" ELSE read(o)
  /\ pc' = "sign"
  /\ UNCHANGED <<inputVars, error, signVars, fileVars, propVars, execVars,
                 signParams, tokenVars>>

\* What lines 251-284 can do before the write: readFile of the source
\* rejects, createLocalSigner's readFile of the certificates rejects (local
\* signer only), c2pa.sign rejects, or the asset is signed.
SignOutcomes(useLocalSigner) ==
  {"readFileFails", "signFails", "signed"}
  \cup (IF Truthy(useLocalSigner) THEN {"createSignerFails"} ELSE {})

\* sign(asset, manifest, useLocalSigner), lines 205-217: the signer chosen.
signerOf(useLocalSigner) == IF Truthy(useLocalSigner) THEN "local" ELSE "remote"

SignAsset ==
  /\ pc = "sign"
  /\ \E o \in SignOutcomes(useLocalSignerOf(instructions)) :
       /\ signerType' = IF o \in {"readFileFails", "createSignerFails"}
                        THEN "none"
                        ELSE signerOf(useLocalSignerOf(instructions))
       /\ IF o = "signed"
          THEN /\ signedAsset' = SignedBuffer(source)
               /\ signError' = ""
               /\ pc' = "writeRendition"
          ELSE /\ signedAsset' = signedAsset
               /\ signError' = o
               /\ pc' = "fallbackCopy"
  /\ UNCHANGED <<inputVars, error, sourceC2paMetadata, fileVars, propVars,
                 execVars, signParams, tokenVars>>

\* Mutant: the copy sits in a finally clause and runs after a good write too.
AfterWriteAlwaysCopy(outcome) == "fallbackCopy"

\* Lines 287-293: a resolved write leaves the try block, a rejected one enters
\* the catch clause.
AfterWrite(outcome) == IF outcome = "ok" THEN "propagate" ELSE "fallbackCopy"

\* Line 287, fs.writeFile(rendition.path, signedAsset.buffer): it resolves,
\* or rejects before the file is created, or rejects having written a part.
WriteRendition ==
  /\ pc = "writeRendition"
  /\ \/ /\ rendition' = signedAsset
        /\ writes' = Append(writes, "writeFile")
        /\ signError' = signError
        /\ pc' = AfterWrite("ok")
     \/ /\ UNCHANGED fileVars
        /\ signError' = "writeFileFails"
        /\ pc' = AfterWrite("rejects")
     \/ \E k \in 0..(Len(signedAsset.bytes) - 1) :
          /\ rendition' = Truncated(signedAsset, k)
          /\ writes' = Append(writes, "writeFilePartial")
          /\ signError' = "writeFileFails"
          /\ pc' = AfterWrite("rejects")
  /\ UNCHANGED <<inputVars, error, sourceC2paMetadata, signerType, signedAsset,
                 propVars, execVars, signParams, tokenVars>>

\* Mutant: a rendition file that is already there is left as it is.
copyFileIfAbsent(src, dst) == IF dst.exists THEN dst ELSE src

\* fs.copyFile(source.path, rendition.path) when it resolves: the destination
\* holds the bytes of the source.
copyFile(src, dst) == src

\* Mutant: the catch clause only logs.
FallbackCopyMissing ==
  /\ pc = "fallbackCopy"
  /\ pc' = "propagate"
  /\ UNCHANGED <<inputVars, error, sourceC2paMetadata, signVars, fileVars,
                 propVars, execVars, signParams, tokenVars>>

\* Line 293, in the catch clause: nothing catches a rejection of the copy.
FallbackCopy ==
  /\ pc = "fallbackCopy"
  /\ \/ /\ rendition' = copyFile(source, rendition)
        /\ writes' = Append(writes, "copyFile")
        /\ pc' = "propagate"
        /\ error' = error
     \/ /\ UNCHANGED fileVars
        /\ pc' = "failed"
        /\ error' = "copyFileFails"
     \/ \E k \in 0..(Len(source.bytes) - 1) :
          /\ rendition' = Truncated(source, k)
          /\ writes' = Append(writes, "copyFilePartial")
          /\ pc' = "failed"
          /\ error' = "copyFileFails"
  /\ UNCHANGED <<inputVars, sourceC2paMetadata, signVars, propVars, execVars,
                 signParams, tokenVars>>

\* Lines 297-303: the propagator is called with the sign parameters of the
\* instructions, or the step is skipped.
Propagate ==
  /\ pc = "propagate"
  /\ IF shouldAddSourceManifest(instructions) /\ Truthy(sourceC2paMetadata)
     THEN /\ signParams' = signParamsOf(instructions)
          /\ propagator' = "running"
          /\ pc' = "extract"
     ELSE /\ pc' = "done"
          /\ UNCHANGED <<signParams, propagator>>
  /\ UNCHANGED <<inputVars, error, sourceC2paMetadata, signVars, fileVars,
                 scratch, scratchWritten, unlinkAttempted, c2patoolCommand,
                 finalC2patoolCommand, addManifestError, addedManifest,
                 execVars, tokenVars>>

\* ------------------------------------------------------------------
\* addAssetManifestToRendition, lines 134-163.  Its return is the end of
\* the invocation: lines 304-308 only log.
\* ------------------------------------------------------------------

PropagatorReturns ==
  /\ propagator' = "returned"
  /\ pc' = "done"

\* Lines 135-144
ExtractManifest ==
  /\ pc = "extract"
  /\ IF ~Truthy(sourceC2paMetadata)
        \/ extractContentProvenanceActiveManifestContents(sourceC2paMetadata)
             = "null"
     THEN PropagatorReturns
     ELSE pc' = "writeJson" /\ propagator' = propagator
  /\ UNCHANGED <<inputVars, error, sourceC2paMetadata, signVars, fileVars,
                 scratch, scratchWritten, unlinkAttempted, c2patoolCommand,
                 finalC2patoolCommand, addManifestError, addedManifest,
                 execVars, signParams, tokenVars>>

\* Lines 146-147, fse.writeJson: a rejection goes to the catch of line 158.
WriteScratchManifest ==
  /\ pc = "writeJson"
  /\ \/ /\ scratch' = "present"
        /\ scratchWritten' = TRUE
        /\ pc' = "addManifest"
        /\ propagator' = propagator
     \/ /\ scratch' \in {"absent", "partial"}
        /\ scratchWritten' = FALSE
        /\ PropagatorReturns
  /\ UNCHANGED <<inputVars, error, sourceC2paMetadata, signVars, fileVars,
                 unlinkAttempted, c2patoolCommand, finalC2patoolCommand,
                 addManifestError, addedManifest, execVars, signParams,
                 tokenVars>>

CommandResult(k, cmd) == [kind |-> k, cmd |-> cmd]

\* Mutant: a failed exchange is swallowed and the command goes on as built.
addAuthToCommandSwallow(inC2patoolCommand, sp, token) ==
  IF sp.defined /\ Truthy(sp.useInternalTooling) /\ token.kind = "return"
  THEN CommandResult("return", WithAuth(inC2patoolCommand, token.value))
  ELSE CommandResult("return", inC2patoolCommand)

\* addAuthToCommand, lines 109-116, given what the exchange did.
addAuthToCommand(inC2patoolCommand, sp, token) ==
  IF sp.defined /\ Truthy(sp.useInternalTooling)
  THEN IF token.kind = "throw"
       THEN CommandResult("throw", inC2patoolCommand)
       ELSE CommandResult("return", WithAuth(inC2patoolCommand, token.value))
  ELSE CommandResult("return", inC2patoolCommand)

\* addC2PAManifest, lines 118-126: the command is built and the auth token
\* attached; a failure to attach it is rethrown and lands in the catch of
\* line 158, past the cleanup.
AttachAuth ==
  /\ pc = "addManifest"
  /\ c2patoolCommand' =
       buildExtractionCommand("rendition.path", "manifest.json", "null",
                              signParams)
  /\ IF signParams.defined /\ Truthy(signParams.useInternalTooling)
     THEN exchangeServiceTokenForSignature
     ELSE UNCHANGED tokenVars
  /\ LET r == addAuthToCommand(c2patoolCommand', signParams, tokenResult') IN
     IF r.kind = "throw"
     THEN /\ addManifestError' = AuthAttachmentError
          /\ finalC2patoolCommand' = c2patoolCommand'
          /\ PropagatorReturns
     ELSE /\ addManifestError' = ""
          /\ finalC2patoolCommand' = r.cmd
          /\ pc' = "exec"
          /\ propagator' = propagator
  /\ UNCHANGED <<inputVars, error, sourceC2paMetadata, signVars, fileVars,
                 scratch, scratchWritten, unlinkAttempted, addedManifest,
                 execVars, signParams>>

\* Output a subprocess prints in an invocation: every text of one character.
StdoutSamples == SeqsUpTo(Chars, 1) \cup {<<"[", "1", "]">>}

\* addC2PAManifest, lines 127-131: the command runs.  A run that exits 0 has
\* rewritten its --output file, the rendition.
ExecuteCommand ==
  /\ pc = "exec"
  /\ ExecCall(StdoutSamples)
  /\ IF execOutcome' = "exit0"
     THEN /\ rendition' = WithSourceManifest(rendition)
          /\ writes' = Append(writes, "c2patool")
     ELSE UNCHANGED fileVars
  /\ IF execResult'.kind = "throw"
     THEN /\ addedManifest' = addedManifest
          /\ PropagatorReturns
     ELSE /\ addedManifest' =
               IF HasKeys(execResult') THEN execResult' ELSE ReturnNull
          /\ pc' = "cleanup"
          /\ propagator' = propagator
  /\ UNCHANGED <<inputVars, error, sourceC2paMetadata, signVars, scratch,
                 scratchWritten, unlinkAttempted, c2patoolCommand,
                 finalC2patoolCommand, addManifestError, signParams,
                 tokenVars>>

\* Lines 151-162: the scratch file is unlinked when cleanUpTmpFiles === true;
\* a rejected unlink is ignored.
CleanUp ==
  /\ pc = "cleanup"
  /\ IF signParams.defined /\ signParams.cleanUpTmpFiles = "true"
     THEN /\ unlinkAttempted' = TRUE
          /\ scratch' \in {"deleted", scratch}
     ELSE UNCHANGED <<unlinkAttempted, scratch>>
  /\ PropagatorReturns
  /\ UNCHANGED <<inputVars, error, sourceC2paMetadata, signVars, fileVars,
                 scratchWritten, c2patoolCommand, finalC2patoolCommand,
                 addManifestError, addedManifest, execVars, signParams,
                 tokenVars>>

\* ------------------------------------------------------------------
\* The invocations of the model
\* ------------------------------------------------------------------

Sources == {AbsentFile} \cup {FileOf(b) : b \in SeqsUpTo(Bytes, MaxSrcLen)}

MainSignParams ==
  {NoSignParams}
  \cup {SignParamsOf(cs, ac, t, uit, cutf) :
          cs \in {"undefined", "secret"}, ac \in {"code"},
          t \in {"stage", "DEV"}, uit \in {"undefined", "true", "false"},
          cutf \in {"undefined", "true", "false", "str"}}

InstructionBags ==
  {NoInstructions}
  \cup {InstructionsOf(uls, asm, sp) :
          uls \in {"undefined", "true", "false"},
          asm \in {"undefined", "true", "false", "str"},
          sp \in MainSignParams}

vars == <<execVars, signParams, tokenVars, mainVars>>

NoInvocation == MainIdle /\ source = AbsentFile /\ instructions = NoInstructions

InitExec == ExecIdle /\ TokenIdle /\ signParams = EmptyObject /\ NoInvocation

RunCommand ==
  /\ execPc = "idle"
  /\ ExecCall(SeqsUpTo(Chars, MaxStdoutLen))
  /\ UNCHANGED <<signParams, tokenVars, mainVars>>

NextExec == RunCommand

SpecExec == InitExec /\ [][NextExec]_vars

\* The exchange is reached only through addAuthToCommand, that is with
\* useInternalTooling truthy.
ExchangeSignParams ==
  {SignParamsOf(cs, ac, t, uit, "undefined") :
     cs \in {"undefined", "", "secret"}, ac \in {"undefined", "", "code"},
     t \in Tiers, uit \in {"true", "str"}}

InitExchange ==
  ExecIdle /\ TokenIdle /\ signParams \in ExchangeSignParams /\ NoInvocation

ExchangeToken ==
  /\ tokenPc = "idle"
  /\ exchangeServiceTokenForSignature
  /\ UNCHANGED <<execVars, signParams, mainVars>>

NextExchange == ExchangeToken

SpecExchange == InitExchange /\ [][NextExchange]_vars

Init ==
  /\ ExecIdle /\ TokenIdle /\ signParams = EmptyObject /\ MainIdle
  /\ source \in Sources
  /\ instructions \in InstructionBags

Next ==
  \/ Stat
  \/ ReadMetadata
  \/ SignAsset
  \/ WriteRendition
  \/ FallbackCopy
  \/ Propagate
  \/ ExtractManifest
  \/ WriteScratchManifest
  \/ AttachAuth
  \/ ExecuteCommand
  \/ CleanUp

Spec == Init /\ [][Next]_vars

\* ==================================================================
\* Properties
\* ==================================================================

Range(f) == {f[i] : i \in DOMAIN f}

\* The writes of the rendition that ran to their end.
CompletedWrites ==
  SelectSeq(writes, LAMBDA w : w \in {"writeFile", "copyFile", "c2patool"})

\* The completed writes made by the worker's own code.
OwnWrites == SelectSeq(writes, LAMBDA w : w \in {"writeFile", "copyFile"})

CommandWrites == SelectSeq(writes, LAMBDA w : w = "c2patool")

\* From the end of the signing step on.
AfterSigningStep ==
  pc \in {"propagate", "extract", "writeJson", "addManifest", "exec",
          "cleanup", "done"}

\* ---- C1 ----------------------------------------------------------

C2_OnlySourceCorruptFails == pc = "failed" => error = SourceCorruptError

\* C2 amended: an invocation that fails fails with SourceCorruptError (exactly
\* when the source has size zero), with the rejection of fs.stat (the source
\* cannot be stat'ed) or with the rejection of the fallback copy (after the
\* signing step failed); no failure of the metadata read, signer creation,
\* signing, the write of the signed buffer, manifest propagation or cleanup
\* makes it fail.
C2_FailureCauses ==
  pc = "failed" =>
    /\ error \in {SourceCorruptError, "ENOENT", "copyFileFails"}
    /\ error = SourceCorruptError <=> source.exists /\ Len(source.bytes) = 0
    /\ error = "ENOENT" <=> ~source.exists
    /\ error = "copyFileFails" =>
         signError # "" /\ "copyFile" \notin Range(writes)
                        /\ propagator = "notCalled"

C2_Witness ==
  /\ pc = "failed"
  /\ error = "copyFileFails"
  /\ signError = "signFails"
  /\ sourceC2paMetadata = "undefined"

\* ---- C3 ----------------------------------------------------------

C5_ZeroByteSource ==
  source.exists /\ Len(source.bytes) = 0 =>
    /\ pc \in {"stat", "failed"}
    /\ pc = "failed" => error = SourceCorruptError
    /\ sourceC2paMetadata = "undefined"
    /\ signerType = "none"
    /\ signedAsset = AbsentFile
    /\ writes = <<>>
    /\ ~rendition.exists
    /\ propagator = "notCalled"
    /\ scratch = "absent"
    /\ execPc = "idle"
    /\ tokenPc = "idle"

C5_Witness ==
  /\ source.exists
  /\ Len(source.bytes) = 0
  /\ pc = "failed"
  /\ error = SourceCorruptError

\* ---- C6 ----------------------------------------------------------

\* C6: the propagator is invoked only with addSourceManifest === true and
\* metadata from the read step, and only after the rendition was written
\* (signed or copied); a scratch file exists only if it was invoked.
C6_PropagationGuard ==
  /\ propagator # "notCalled" =>
       /\ instructions.defined
       /\ instructions.addSourceManifest = "true"
       /\ sourceC2paMetadata \in {"noActive", "active"}
       /\ Len(OwnWrites) = 1
       /\ rendition.exists
  /\ scratch # "absent" => propagator # "notCalled"
  /\ pc \in {"extract", "writeJson", "addManifest", "exec", "cleanup"} =>
       propagator = "running"

C6_Witness ==
  /\ propagator = "returned"
  /\ scratch = "present"
  /\ instructions.addSourceManifest = "true"

\* ---- C7 ----------------------------------------------------------

\* C7 as stated: once the propagator has written the scratch file and
\* cleanUpTmpFiles is true, its deletion has been attempted by the time the
\* propagator returns, whatever add-manifest did.
C7_ScratchCleanedUp ==
  /\ propagator = "returned"
  /\ scratchWritten
  /\ signParams.cleanUpTmpFiles = "true"
  => unlinkAttempted

\* ---- C8 ----------------------------------------------------------

InternalTooling == signParams.defined /\ Truthy(signParams.useInternalTooling)

IsClientSecretRejection(res) ==
  /\ res.status = 400
  /\ res.body.kind = "object"
  /\ res.body.error = "invalid_client"
  /\ res.body.error_description = "invalid client_secret parameter"

\* C9 as stated: on a non-success response the exchange fails with the
\* credential-rejected error exactly for status 400 with invalid_client and
\* "invalid client_secret parameter", and for every other response, whatever
\* its body, with the generic error carrying status, status text and body; it
\* never returns a token.
C9_NonSuccessErrors ==
  /\ tokenPc = "requested"
  /\ tokenResponse.kind = "response"
  /\ ~ResOk(tokenResponse)
  => /\ tokenResult.kind = "throw"
     /\ IF IsClientSecretRejection(tokenResponse)
        THEN tokenResult.error = CredentialRejected
        ELSE /\ tokenResult.error = TokenExchangeError
             /\ tokenResult.status = tokenResponse.status
             /\ tokenResult.statusText = tokenResponse.statusText
             /\ tokenResult.body = tokenResponse.body

\* ---- C10 ---------------------------------------------------------

\* The JSON texts over Chars of at most MaxStdoutLen characters, built from
\* the grammar: a value is a number or an array of values, whitespace may
\* surround every value.
Spaces(n) == {[i \in 1..k |-> " "] : k \in 0..n}

Ones(n) == {[i \in 1..k |-> "1"] : k \in 1..n}

Within(S, n) == {s \in S : Len(s) <= n}

Padded(S, n) ==
  Within({a \o v \o b : a \in Spaces(n), v \in S, b \in Spaces(n)}, n)

RECURSIVE ElementLists(_, _, _)
ElementLists(S, n, k) ==
  IF k <= 1 THEN Padded(S, n)
  ELSE LET shorter == ElementLists(S, n, k - 1) IN
       shorter
       \cup Within({l \o <<",">> \o e : l \in shorter, e \in Padded(S, n)}, n)

ArraysOf(S, n) ==
  {<<"[">> \o w \o <<"]">> : w \in Spaces(n - 2)}
  \cup {<<"[">> \o l \o <<"]">> : l \in ElementLists(S, n - 2, n)}

RECURSIVE JsonValues(_, _)
JsonValues(n, depth) ==
  IF depth = 0 \/ n < 2 THEN Ones(n)
  ELSE Ones(n) \cup ArraysOf(JsonValues(n - 2, depth - 1), n)

JsonTexts == Padded(JsonValues(MaxStdoutLen, MaxStdoutLen), MaxStdoutLen)

\* The value a JSON text denotes, in the canonical form of the model.
Denotation(text) == SelectSeq(text, LAMBDA c : c # " ")

AllWhitespace(text) == \A i \in DOMAIN text : text[i] = " "

\* C10: the executor never throws; it returns null when the subprocess fails,
\* when stdout is empty or whitespace only, or when it is not JSON, and the
\* parsed value otherwise.
C10_ExecutorTotal ==
  execPc = "returned" =>
    /\ execResult.kind = "return"
    /\ IF \/ execOutcome # "exit0"
          \/ AllWhitespace(stdout)
          \/ stdout \notin JsonTexts
       THEN execResult = ReturnNull
       ELSE execResult = ReturnVal(Denotation(stdout))

C10_Witness ==
  /\ execPc = "returned"
  /\ execOutcome = "exit0"
  /\ stdout = <<"1", " ", "x">>
  /\ execResult = ReturnNull

====
